---- MODULE Spec2Model ----
(***************************************************************************)
(* Translation-tree synchronisation and resolution of wagtailtrans.        *)
(*                                                                         *)
(* The database is modelled by the rows of Language (languages), the rows  *)
(* of Page / TranslatedPage (pages) and the page tree (kids: the children  *)
(* of every node in path order, node 0 being the level above the depth-1   *)
(* pages).  Every operation is one action that runs the whole call,        *)
(* signal handlers included: Django dispatches post_save and pre_delete    *)
(* synchronously inside save() and delete().  An exception ends the        *)
(* operation where it is raised and what was written before it stays       *)
(* written (models.py and signals.py open no transaction).                 *)
(*                                                                         *)
(* The page-tree service (copy, move, add_child, add_sibling, get_parent,  *)
(* get_descendants) is modelled by what the calls in models.py and         *)
(* signals.py rely on; it accepts any slug.                                *)
(***************************************************************************)
EXTENDS Integers, Sequences, FiniteSets, TLC

VARIABLES languages, pages, kids, nextId, sync, room, last, calls

vars == <<languages, pages, kids, nextId, sync, room, last, calls>>

(***************************************************************************)
(* Bounds of the model.                                                    *)
(***************************************************************************)
MaxPages == 3      \* page rows ever created besides the tree root (room)
MaxOwn == 2        \* pages without canonical_page beside which CreatePage adds none

LangCodes == {"en", "fr", "de"}     \* settings.LANGUAGES
Slugs == {"home"}                   \* slugs given to directly created pages
Titles == {"Home"}                  \* titles given to directly created pages

NoPage == 0          \* None where a page is expected; also the level above depth 1
NoLang == "-"        \* None where a language is expected
RootPage == 1        \* the page tree's root, a plain Page

(***************************************************************************)
(* Language (models.py 18-50).  A row is keyed by its unique code.         *)
(***************************************************************************)
OrderOf(code) == CASE code = "en" -> 0 [] code = "fr" -> 2 [] OTHER -> 1

\* The rows that are registered: en is a live default language, fr is no
\* default and live or not, de is a default or not and, when it is none,
\* live.
LanguageRows ==
    {r \in [code : LangCodes, is_default : BOOLEAN, live : BOOLEAN] :
        /\ r.code = "en" => r.is_default /\ r.live
        /\ r.code = "fr" => ~r.is_default
        /\ r.code = "de" => r.live \/ r.is_default}

Language(code, is_default, live) ==
    [code |-> code, is_default |-> is_default, order |-> OrderOf(code), live |-> live]

\* The codes of S in the order of Meta.ordering = ['order'].
RECURSIVE ByOrder(_, _)
ByOrder(L, S) ==
    IF S = {} THEN <<>>
    ELSE LET c == CHOOSE x \in S : \A y \in S : L[x].order <= L[y].order
         IN <<c>> \o ByOrder(L, S \ {c})

\* The default language looked up among the languages that are not live too.
DefaultIgnoringLive(L) ==
    LET S == {c \in DOMAIN L : L[c].is_default}
    IN IF S = {} THEN NoLang ELSE ByOrder(L, S)[1]

get_default_language(L) ==
    LET S == {c \in DOMAIN L : L[c].live /\ L[c].is_default}
    IN IF S = {} THEN NoLang ELSE ByOrder(L, S)[1]

(***************************************************************************)
(* Rows of the page table.  translatable tells a TranslatedPage from a     *)
(* plain Page (which has neither language nor canonical_page).             *)
(***************************************************************************)
TranslatedPage(language, canonical_page, live, slug, title) ==
    [translatable |-> TRUE, language |-> language, canonical_page |-> canonical_page,
     live |-> live, slug |-> slug, title |-> title]

PlainPage(live, slug, title) ==
    [translatable |-> FALSE, language |-> NoLang, canonical_page |-> NoPage,
     live |-> live, slug |-> slug, title |-> title]

(***************************************************************************)
(* The page tree.                                                          *)
(***************************************************************************)
InSeq(x, s) == \E i \in 1..Len(s) : s[i] = x

SeqSet(s) == {s[i] : i \in 1..Len(s)}

Without(s, x) == SelectSeq(s, LAMBDA y : y # x)

\* get_parent(): None for a depth-1 page.
get_parent(k, p) == CHOOSE q \in DOMAIN k : InSeq(p, k[q])

RECURSIVE depth(_, _)
depth(k, p) == IF p = NoPage THEN 0 ELSE 1 + depth(k, get_parent(k, p))

\* get_descendants(): the pages below p, in path order.
RECURSIVE SubtreesOf(_, _)
get_descendants(k, p) == SubtreesOf(k, k[p])
SubtreesOf(k, s) ==
    IF s = <<>> THEN <<>>
    ELSE <<Head(s)>> \o get_descendants(k, Head(s)) \o SubtreesOf(k, Tail(s))

(***************************************************************************)
(* TranslatedPage.get_translations (models.py 96-114): a QuerySet, here    *)
(* the sequence of its pages.  order_by('language__order') leaves pages    *)
(* of one language in the database's order, taken to be that of the keys.  *)
(***************************************************************************)
RECURSIVE order_by_language(_, _, _)
order_by_language(L, P, S) ==
    IF S = {} THEN <<>>
    ELSE LET q == CHOOSE x \in S : \A y \in S :
                     \/ L[P[x].language].order < L[P[y].language].order
                     \/ L[P[x].language].order = L[P[y].language].order /\ x <= y
         IN <<q>> \o order_by_language(L, P, S \ {q})

TranslationGroup(P, self) ==
    IF P[self].canonical_page # NoPage
    THEN {q \in DOMAIN P : /\ P[q].translatable
                           /\ \/ P[q].canonical_page = self
                              \/ P[q].canonical_page = P[self].canonical_page
                              \/ q = P[self].canonical_page}
    ELSE {q \in DOMAIN P : /\ P[q].translatable
                           /\ \/ P[q].canonical_page = self
                              \/ q = self}

get_translations(L, P, self, only_live) ==
    order_by_language(L, P,
        {q \in TranslationGroup(P, self) :
            /\ only_live => P[q].live
            /\ L[P[q].language].live})

(***************************************************************************)
(* TranslatedPage.force_parent_language (models.py 159-167): the language  *)
(* the instance holds afterwards.  parent is the argument (NoPage when it  *)
(* is omitted); the parent is narrowed to its concrete type (line 163)     *)
(* before it is probed for a language.                                     *)
(***************************************************************************)
force_parent_language(P, k, self, language, parent) ==
    LET par == IF parent = NoPage THEN get_parent(k, self) ELSE parent
    IN IF par # NoPage /\ P[par].translatable /\ language # P[par].language
       THEN P[par].language
       ELSE language

(***************************************************************************)
(* The state an operation works on and leaves: the page rows, the tree,    *)
(* the next key, the exception that ended it ("" when none), and the       *)
(* instance it returns: its key and the language the in-memory object      *)
(* holds, which save() can set apart from the stored one.                  *)
(***************************************************************************)
NoInstance == [pk |-> NoPage, language |-> NoLang]

World(P, k, n) == [pages |-> P, kids |-> k, next |-> n, err |-> "", ret |-> NoInstance]

Raise(w, e) == [w EXCEPT !.err = e, !.ret = NoInstance]

Return(w, inst) == [w EXCEPT !.ret = inst]

\* The row is inserted as the last child of parent (add_child, add_sibling
\* and add_root of the page-tree service all append).
Insert(w, parent, row) ==
    [w EXCEPT !.pages = w.pages @@ (w.next :> row),
              !.kids = [w.kids EXCEPT ![parent] = Append(@, w.next)] @@ (w.next :> <<>>),
              !.next = w.next + 1]

\* Page.move(target) of the page-tree service.  create_translation hands
\* it the QuerySet new_parent (target.qs), which has none of the tree
\* attributes move reads: AttributeError before anything is written.
\* Given a page it makes the moved page the last sibling of the target
\* and returns None.
Page_move(w, pk, target) ==
    IF target.qs THEN Raise(w, "AttributeError")
    ELSE LET from == get_parent(w.kids, pk)
             to == get_parent(w.kids, target.pk)
             k1 == [w.kids EXCEPT ![from] = Without(@, pk)]
         IN Return([w EXCEPT !.kids = [k1 EXCEPT ![to] = Append(@, pk)]], NoInstance)

(***************************************************************************)
(* move_translation(language) is called by signals.py (30, 67) and is      *)
(* defined neither in models.py nor in signals.py; it is modelled from     *)
(* the specification: the translation is repositioned under the            *)
(* translation, into its language, of its canonical page's parent, and     *)
(* is left where it is when there is none.                                 *)
(***************************************************************************)
move_translation(w, pk, language) ==
    LET canonical == w.pages[pk].canonical_page
        cpar == IF canonical \in DOMAIN w.pages THEN get_parent(w.kids, canonical) ELSE NoPage
        targets == {q \in DOMAIN w.pages : /\ cpar # NoPage
                                           /\ q # pk
                                           /\ w.pages[q].translatable
                                           /\ w.pages[q].canonical_page = cpar
                                           /\ w.pages[q].language = language}
    IN IF targets = {} THEN w
       ELSE LET to == CHOOSE q \in targets : \A r \in targets : q <= r
                k1 == [w.kids EXCEPT ![get_parent(w.kids, pk)] = Without(@, pk)]
            IN [w EXCEPT !.kids = [k1 EXCEPT ![to] = Append(@, pk)]]

(***************************************************************************)
(* Creation.  `specific` tells whether get_parent() of the instance the    *)
(* call runs on yields the parent as its concrete type: the page-tree      *)
(* service returns the generic Page (which is why force_parent_language    *)
(* narrows it, line 163) unless the instance was attached through a        *)
(* concrete parent object, which it then keeps.  Only on the concrete      *)
(* type does hasattr(parent, 'get_translations') hold.                     *)
(*                                                                         *)
(* save() sends post_save, whose handler synchronize_trees calls           *)
(* create_translation, which saves in turn.  What follows a call that can  *)
(* raise is an operator of its own, given what the call left.              *)
(***************************************************************************)
RECURSIVE create_translation(_, _, _, _, _, _)
RECURSIVE CreateAndPlace(_, _, _, _, _, _)
RECURSIVE synchronize_trees(_, _, _, _, _)
RECURSIVE SynchronizeEach(_, _, _, _, _, _)
RECURSIVE SynchronizeNext(_, _, _, _, _, _)

\* models.py 93-94: after super().save(), force_parent_language sets the
\* language of the in-memory instance, which save() leaves to its caller.
ForcedAfterSave(sent, pk, language) ==
    IF sent.err # "" THEN sent
    ELSE Return(sent, [pk |-> pk,
                       language |-> force_parent_language(sent.pages, sent.kids, pk,
                                                          language, NoPage)])

\* TranslatedPage.save (models.py 91-94) of a new row placed as the last
\* child of parent: Page.save stores the row and sends post_save
\* (signals.py 77-78).
TranslatedPage_save(L, w, parent, row, specific) ==
    ForcedAfterSave(
        synchronize_trees(L, Insert(w, parent, row),
                          [pk |-> w.next, language |-> row.language], TRUE, specific),
        w.next, row.language)

\* Page.copy(update_attrs) of the page-tree service: every field of self,
\* update_attrs applied, saved as a sibling of self (add_sibling leaves
\* the copy's get_parent() generic).
Page_copy(L, w, self, update_attrs) ==
    TranslatedPage_save(L, w, get_parent(w.kids, self),
        [f \in DOMAIN w.pages[self] |->
            IF f \in DOMAIN update_attrs THEN update_attrs[f] ELSE w.pages[self][f]],
        FALSE)

\* new_parent.add_child(instance=new_page): a QuerySet has no add_child.
add_child(L, w, new_parent, row) ==
    IF new_parent.qs THEN Raise(w, "AttributeError")
    ELSE TranslatedPage_save(L, w, new_parent.pk, row, FALSE)

add_sibling(L, w, self, row) ==
    TranslatedPage_save(L, w, get_parent(w.kids, self), row, FALSE)

\* bool(new_parent): a page is true, None is false, a QuerySet is true
\* when it has rows.
Truthy(new_parent) ==
    IF new_parent.qs THEN new_parent.rows # <<>> ELSE new_parent.pk # NoPage

\* models.py 124-128: the parent, or the QuerySet of its translations
\* into the language when the parent shows get_translations.
NewParent(L, w, self, language, specific) ==
    LET parent == get_parent(w.kids, self)
    IN IF parent # NoPage /\ specific /\ w.pages[parent].translatable
       THEN [qs |-> TRUE, pk |-> NoPage,
             rows |-> SelectSeq(get_translations(L, w.pages, parent, FALSE),
                                LAMBDA q : w.pages[q].language = language)]
       ELSE [qs |-> FALSE, pk |-> parent, rows |-> <<>>]

\* models.py 130-132.
NewSlug(slug, code) == slug \o "-" \o code

\* models.py 142-143: parent != new_parent holds of a QuerySet.
MovedCopy(new_page, parent, new_parent) ==
    IF new_page.err # "" THEN new_page
    ELSE IF new_parent.qs \/ new_parent.pk # parent
         THEN Page_move(new_page, new_page.ret.pk, new_parent)
         ELSE new_page

\* models.py 117-119: the query for a translation of self into the language.
TranslationExists(P, self, language) ==
    \E q \in DOMAIN P : /\ P[q].translatable
                        /\ P[q].canonical_page = self
                        /\ P[q].language = language

\* A creation that looks for the translation once more before it stores.
RecheckedCreate(L, w, self, language, copy_fields, specific) ==
    IF TranslationExists(w.pages, self, language)
    THEN Raise(w, "DuplicateTranslation")
    ELSE add_sibling(L, w, self,
             TranslatedPage(language, self, FALSE,
                            NewSlug(w.pages[self].slug, L[language].code),
                            w.pages[self].title))

\* models.py 122-157: what create_translation does once the query has
\* found no translation.
CreateAndPlace(L, w, self, language, copy_fields, specific) ==
    IF copy_fields
    THEN MovedCopy(
             Page_copy(L, w, self,
                 [slug |-> NewSlug(w.pages[self].slug, L[language].code),
                  language |-> language, live |-> FALSE, canonical_page |-> self]),
             get_parent(w.kids, self),
             NewParent(L, w, self, language, specific))
    ELSE LET row == TranslatedPage(language, self, FALSE,
                                   NewSlug(w.pages[self].slug, L[language].code),
                                   w.pages[self].title)
         IN IF Truthy(NewParent(L, w, self, language, specific))
            THEN add_child(L, w, NewParent(L, w, self, language, specific), row)
            ELSE add_sibling(L, w, self, row)

\* TranslatedPage.create_translation (models.py 116-157).
create_translation(L, w, self, language, copy_fields, specific) ==
    IF TranslationExists(w.pages, self, language)
    THEN Raise(w, "DuplicateTranslation")
    ELSE CreateAndPlace(L, w, self, language, copy_fields, specific)

\* signals.py 28-30, given what create_translation left: new_page.language
\* is set on the instance, and the page is repositioned unless is_root.
SynchronizeNext(L, new_page, instance, langs, is_root, specific) ==
    IF new_page.err # "" THEN new_page
    ELSE IF new_page.ret.pk = NoPage THEN Raise(new_page, "AttributeError")
    ELSE SynchronizeEach(L,
             IF is_root THEN new_page
             ELSE move_translation(new_page, new_page.ret.pk, Head(langs)),
             instance, Tail(langs), is_root, specific)

\* The loop of synchronize_trees (signals.py 26-30).
SynchronizeEach(L, w, instance, langs, is_root, specific) ==
    IF langs = <<>> THEN w
    ELSE SynchronizeNext(L,
             create_translation(L, w, instance.pk, Head(langs), TRUE, specific),
             instance, langs, is_root, specific)

\* The handler without its test of created.
MirrorEverySave(L, w, instance, created, specific) ==
    IF \/ ~sync
       \/ instance.language = NoLang
       \/ ~L[instance.language].is_default
    THEN w
    ELSE SynchronizeEach(L, w, instance,
                         ByOrder(L, {c \in DOMAIN L : ~L[c].is_default}),
                         TRUE, specific)

\* synchronize_trees (signals.py 10-30), the post_save handler of pages.
synchronize_trees(L, w, instance, created, specific) ==
    IF \/ ~created
       \/ ~sync
       \/ instance.language = NoLang
       \/ ~L[instance.language].is_default
    THEN w
    ELSE LET is_root == ~\E q \in DOMAIN w.pages :
                            /\ q # instance.pk
                            /\ w.pages[q].translatable
                            /\ w.pages[q].language = get_default_language(L)
         IN SynchronizeEach(L, w, instance,
                            ByOrder(L, {c \in DOMAIN L : ~L[c].is_default}),
                            is_root, specific)

(***************************************************************************)
(* create_new_language_tree (signals.py 46-67), the post_save handler of   *)
(* Language.  order_by('depth').first() leaves the choice among the        *)
(* shallowest default-language pages to the database: root is any of       *)
(* RootChoices.  The pages the handler works on are fetched by queries     *)
(* (first(), get_descendants(), .specific), so their get_parent() is the   *)
(* generic Page.                                                           *)
(***************************************************************************)
RootChoices(L, P, k) ==
    LET S == {q \in DOMAIN P : P[q].translatable /\ P[q].language = get_default_language(L)}
    IN IF S = {} THEN {NoPage}
       ELSE {q \in S : \A r \in S : depth(k, q) <= depth(k, r)}

RECURSIVE TranslateEach(_, _, _, _)
RECURSIVE TranslateNext(_, _, _, _)

\* signals.py 66-67, given what create_translation left.
TranslateNext(L, new_page, children, instance) ==
    IF new_page.err # "" THEN new_page
    ELSE IF new_page.ret.pk = NoPage THEN Raise(new_page, "AttributeError")
    ELSE TranslateEach(L, move_translation(new_page, new_page.ret.pk, instance),
                       Tail(children), instance)

\* The loop over root.get_descendants() (signals.py 63-67); a plain Page
\* among them has no create_translation.
TranslateEach(L, w, children, instance) ==
    IF children = <<>> THEN w
    ELSE IF ~w.pages[Head(children)].translatable THEN Raise(w, "AttributeError")
    ELSE TranslateNext(L,
             create_translation(L, w, Head(children), instance, TRUE, FALSE),
             children, instance)

\* signals.py 63: the descendants are those at the time the loop starts.
TranslateTree(L, translated, root, instance) ==
    IF translated.err # "" THEN translated
    ELSE TranslateEach(L, translated, get_descendants(translated.kids, root), instance)

\* The handler translating the root alone.
RootOnly(L, w, instance, created, root) ==
    IF ~created \/ ~sync \/ root = NoPage THEN w
    ELSE create_translation(L, w, root, instance, TRUE, FALSE)

create_new_language_tree(L, w, instance, created, root) ==
    IF ~created \/ ~sync THEN w
    ELSE IF root = NoPage THEN w
    ELSE TranslateTree(L, create_translation(L, w, root, instance, TRUE, FALSE),
                       root, instance)

(***************************************************************************)
(* Deletion.  Page.delete() of the page-tree service deletes the page      *)
(* and its descendants; pre_delete is sent for each of them before any     *)
(* row goes, and synchronize_deletions (signals.py 33-43) deletes, the     *)
(* same way, the pages whose canonical_page is the instance.  What is      *)
(* left pointing at a deleted page is set to null (models.py 66-70).       *)
(***************************************************************************)
\* The handler without its test of the sync setting.
CascadeAlways(P, instance) ==
    IF instance \in DOMAIN P /\ P[instance].translatable
    THEN {q \in DOMAIN P : P[q].canonical_page = instance}
    ELSE {}

\* The handler without its cascade.
NoCascade(P, instance) == {}

synchronize_deletions(P, instance) ==
    IF sync /\ instance \in DOMAIN P /\ P[instance].translatable
    THEN {q \in DOMAIN P : P[q].canonical_page = instance}
    ELSE {}

WithDescendants(k, S) == S \cup UNION {SeqSet(get_descendants(k, q)) : q \in S}

RECURSIVE Collected(_, _, _)
Collected(P, k, S) ==
    LET T == WithDescendants(k, S)
        U == T \cup UNION {synchronize_deletions(P, q) : q \in T}
    IN IF U = S THEN S ELSE Collected(P, k, U)

\* The foreign key left as it is when its target is deleted.
KeepLink(row, D) == row

SET_NULL(row, D) ==
    IF row.canonical_page \in D THEN [row EXCEPT !.canonical_page = NoPage] ELSE row

Page_delete(w, pk) ==
    LET D == Collected(w.pages, w.kids, {pk})
        keep == DOMAIN w.pages \ D
    IN [w EXCEPT !.pages = [q \in keep |-> SET_NULL(w.pages[q], D)],
                 !.kids = [q \in keep \cup {NoPage} |->
                              SelectSeq(w.kids[q], LAMBDA c : c \notin D)]]

(***************************************************************************)
(* The resolver (models.py 194-216).  code is the request's LANGUAGE_CODE, *)
(* NoLang when the request has none.                                       *)
(***************************************************************************)
\* The candidates without the request's language.
DefaultsOnly(L, code) == ByOrder(L, {c \in DOMAIN L : L[c].is_default})

get_user_languages(L, code) ==
    IF code # NoLang /\ code \in DOMAIN L
    THEN <<code>>
    ELSE ByOrder(L, {c \in DOMAIN L : L[c].is_default})

RECURSIVE FirstMatch(_, _, _)
FirstMatch(P, candidate_pages, langs) ==
    IF langs = <<>> THEN [status |-> "Http404", page |-> NoPage]
    ELSE LET found == {q \in candidate_pages : P[q].language = Head(langs)}
         IN IF Cardinality(found) = 1
            THEN [status |-> "redirect", page |-> CHOOSE q \in found : TRUE]
            ELSE IF found = {} THEN FirstMatch(P, candidate_pages, Tail(langs))
            ELSE [status |-> "MultipleObjectsReturned", page |-> NoPage]

\* The resolver falling back to the default languages when the
\* request's language gives no page.
ServeWithFallback(L, P, k, self, code) ==
    LET candidate_pages == {q \in SeqSet(k[self]) : P[q].translatable /\ P[q].live}
        found == FirstMatch(P, candidate_pages, get_user_languages(L, code))
    IN IF found.status = "Http404"
       THEN FirstMatch(P, candidate_pages, DefaultsOnly(L, code))
       ELSE found

serve(L, P, k, self, code) ==
    FirstMatch(P, {q \in SeqSet(k[self]) : P[q].translatable /\ P[q].live},
               get_user_languages(L, code))

(***************************************************************************)
(* The operations.  last records the operation that led to the state: its  *)
(* name and arguments, the exception it ended with, the instance it        *)
(* returned, the resolver's response, the next key before it ran (the      *)
(* pages it created have the keys from base on), the pages whose           *)
(* canonical_page was its page before it ran (sats, kept for deletions),   *)
(* the pages of its page's translation group before it ran (group, kept    *)
(* for deletions: the page, its canonical page and the pages whose         *)
(* canonical page is either),                                              *)
(* the pages below its page before it ran (tree, kept for registrations,   *)
(* whose page is the root picked), and whether the operation before it     *)
(* was the same call of create_translation (again).                        *)
(***************************************************************************)
NoResponse == [status |-> "", page |-> NoPage]

Op(name, page, lang, copy, specific, w, response) ==
    [op |-> name, page |-> page, lang |-> lang, copy |-> copy, specific |-> specific,
     err |-> w.err, ret |-> w.ret, response |-> response, base |-> nextId,
     sats |-> IF name = "delete_page"
              THEN {q \in DOMAIN pages : pages[q].canonical_page = page}
              ELSE {},
     group |-> IF name = "delete_page" /\ pages[page].translatable
               THEN {q \in DOMAIN pages :
                       \/ q = page
                       \/ q = pages[page].canonical_page
                       \/ /\ pages[q].canonical_page # NoPage
                          /\ pages[q].canonical_page \in {page, pages[page].canonical_page}}
               ELSE {},
     tree |-> IF name = "register_language" /\ page # NoPage
              THEN SeqSet(get_descendants(kids, page))
              ELSE {},
     again |-> /\ name = "create_translation"
               /\ last.op = "create_translation"
               /\ last.page = page
               /\ last.lang = lang
               /\ last.copy = copy
               /\ last.specific = specific]

Here == World(pages, kids, nextId)

\* The operation leaves w, if the rows fit the bound on the keys ever given.
Done(name, page, lang, copy, specific, w, response) ==
    /\ w.next <= room + 2
    /\ pages' = w.pages
    /\ kids' = w.kids
    /\ nextId' = w.next
    /\ last' = Op(name, page, lang, copy, specific, w, response)

\* Language.objects.create(code, is_default, live): the row is stored and
\* post_save runs create_new_language_tree.
RegisterLanguage(code, is_default, live) ==
    /\ code \notin DOMAIN languages
    /\ [code |-> code, is_default |-> is_default, live |-> live] \in LanguageRows
    /\ languages' = languages @@ (code :> Language(code, is_default, live))
    /\ \E root \in RootChoices(languages', pages, kids) :
          Done("register_language", root, code, FALSE, FALSE,
               create_new_language_tree(languages', Here, code, TRUE, root), NoResponse)
    /\ UNCHANGED <<sync, room, calls>>

\* parent.add_child(instance=page): a published TranslatedPage is created
\* under parent and saved.
CreatePage(parent, language, live, slug, title, specific) ==
    /\ parent \in DOMAIN pages
    /\ language \in DOMAIN languages
    /\ specific => pages[parent].translatable
    /\ Cardinality({q \in DOMAIN pages : /\ pages[q].translatable
                                         /\ pages[q].canonical_page = NoPage}) < MaxOwn
    /\ Done("create_page", nextId, language, FALSE, specific,
            TranslatedPage_save(languages, Here, parent,
                TranslatedPage(language, NoPage, live, slug, title), specific),
            NoResponse)
    /\ UNCHANGED <<languages, sync, room, calls>>

\* page.create_translation(language, copy_fields), called directly.
CreateTranslation(page, language, copy_fields, specific) ==
    /\ page \in DOMAIN pages
    /\ pages[page].translatable
    /\ language \in DOMAIN languages
    /\ specific => /\ get_parent(kids, page) # NoPage
                   /\ pages[get_parent(kids, page)].translatable
    /\ Done("create_translation", page, language, copy_fields, specific,
            create_translation(languages, Here, page, language, copy_fields, specific),
            NoResponse)
    /\ UNCHANGED <<languages, sync, room, calls>>

\* An existing unpublished TranslatedPage is published and saved
\* (models.py 91-94): the row is stored, post_save is sent with created =
\* False, and force_parent_language then sets the language of the instance
\* only.
SavePage(page, live) ==
    /\ page \in DOMAIN pages
    /\ pages[page].translatable
    /\ pages[page].live # live
    /\ Done("save_page", page, pages[page].language, FALSE, FALSE,
            ForcedAfterSave(
                synchronize_trees(languages, [Here EXCEPT !.pages[page].live = live],
                                  [pk |-> page, language |-> pages[page].language],
                                  FALSE, FALSE),
                page, pages[page].language),
            NoResponse)
    /\ UNCHANGED <<languages, sync, room, calls>>

\* page.delete().
DeletePage(page) ==
    /\ page \in DOMAIN pages
    /\ page # RootPage
    /\ Done("delete_page", page, NoLang, FALSE, FALSE, Page_delete(Here, page), NoResponse)
    /\ UNCHANGED <<languages, sync, room, calls>>

\* A visitor requests the index page self.
Serve(self, code) ==
    /\ self \in DOMAIN pages
    /\ ~pages[self].translatable
    /\ last' = Op("serve", self, code, FALSE, FALSE, Here,
                  serve(languages, pages, kids, self, code))
    /\ UNCHANGED <<languages, pages, kids, nextId, sync, room, calls>>

(***************************************************************************)
(* Two requests that call create_translation at the same time.  Each       *)
(* statement of a request is committed on its own (no transaction is       *)
(* opened), so the query of lines 117-119 and the creation after it are    *)
(* two steps, between which the other request can run.  calls holds, for   *)
(* each request, how far its call is, its arguments, whether its query     *)
(* found no translation (passed), and what it ended with.  A request       *)
(* fetches its page from the database, so its get_parent() is the generic  *)
(* Page.  The page-tree service stores a creation in one step.             *)
(***************************************************************************)
Requests == {"a", "b"}

Idle == [stage |-> "idle", page |-> NoPage, lang |-> NoLang, copy |-> FALSE,
         passed |-> FALSE, err |-> "", ret |-> NoInstance]

\* models.py 117-120: the query, and the exception when it finds a row.
RaceCheck(r, page, language, copy_fields) ==
    /\ calls[r].stage = "idle"
    /\ page \in DOMAIN pages
    /\ pages[page].translatable
    /\ language \in DOMAIN languages
    /\ calls' = [calls EXCEPT ![r] =
          IF TranslationExists(pages, page, language)
          THEN [stage |-> "done", page |-> page, lang |-> language, copy |-> copy_fields,
                passed |-> FALSE, err |-> "DuplicateTranslation", ret |-> NoInstance]
          ELSE [stage |-> "checked", page |-> page, lang |-> language, copy |-> copy_fields,
                passed |-> TRUE, err |-> "", ret |-> NoInstance]]
    /\ UNCHANGED <<languages, pages, kids, nextId, sync, room, last>>

\* What the creation of a request leaves in the store.
Stored(r, w) ==
    /\ w.next <= room + 2
    /\ pages' = w.pages
    /\ kids' = w.kids
    /\ nextId' = w.next
    /\ calls' = [calls EXCEPT ![r].stage = "done", ![r].err = w.err, ![r].ret = w.ret]

\* models.py 122-157, run by a request whose query found nothing.
RaceCreate(r) ==
    /\ calls[r].stage = "checked"
    /\ Stored(r, CreateAndPlace(languages, Here, calls[r].page, calls[r].lang,
                                calls[r].copy, FALSE))
    /\ UNCHANGED <<languages, sync, room, last>>

PageIds == 1..(MaxPages + 2)
RequestCodes == LangCodes \cup {"xx", NoLang}

\* The store after the migrations: no language, the tree root alone.
\* settings.WAGTAILTRANS_SYNC_TREE is either value.
Empty ==
    /\ languages = [c \in {} |-> Language(c, FALSE, FALSE)]
    /\ pages = (RootPage :> PlainPage(TRUE, "root", "Root"))
    /\ kids = (NoPage :> <<RootPage>>) @@ (RootPage :> <<>>)
    /\ nextId = RootPage + 1
    /\ last = [op |-> "init", page |-> NoPage, lang |-> NoLang, copy |-> FALSE,
               specific |-> FALSE, err |-> "", ret |-> NoInstance,
               response |-> NoResponse, base |-> RootPage + 1, sats |-> {},
               group |-> {}, tree |-> {}, again |-> FALSE]
    /\ calls = [r \in Requests |-> Idle]

Init ==
    /\ Empty
    /\ sync \in BOOLEAN
    /\ room = MaxPages

Next ==
    \/ \E code \in LangCodes, is_default \in BOOLEAN, live \in BOOLEAN :
          RegisterLanguage(code, is_default, live)
    \/ \E parent \in PageIds, language \in LangCodes, live \in {TRUE},
          slug \in Slugs, title \in Titles, specific \in BOOLEAN :
          CreatePage(parent, language, live, slug, title, specific)
    \/ \E page \in PageIds, language \in LangCodes, copy_fields \in BOOLEAN,
          specific \in BOOLEAN :
          CreateTranslation(page, language, copy_fields, specific)
    \/ \E page \in PageIds, live \in {TRUE} : SavePage(page, live)
    \/ \E page \in PageIds : DeletePage(page)
    \/ \E self \in PageIds, code \in RequestCodes : Serve(self, code)

Spec == Init /\ [][Next]_vars

(***************************************************************************)
(* The synchronised store with room for one more page: a default tree of   *)
(* a root and a descendant, and its mirror.                                *)
(***************************************************************************)
InitMirror ==
    /\ Empty
    /\ sync = TRUE
    /\ room = MaxPages + 1

NextMirror ==
    \/ \E code \in LangCodes, is_default \in BOOLEAN, live \in BOOLEAN :
          RegisterLanguage(code, is_default, live)
    \/ \E parent \in PageIds, language \in LangCodes, live \in {TRUE},
          slug \in Slugs, title \in Titles, specific \in BOOLEAN :
          CreatePage(parent, language, live, slug, title, specific)
    \/ \E page \in PageIds, language \in LangCodes, copy_fields \in BOOLEAN,
          specific \in BOOLEAN :
          CreateTranslation(page, language, copy_fields, specific)
    \/ \E page \in PageIds : DeletePage(page)

SpecMirror == InitMirror /\ [][NextMirror]_vars

(***************************************************************************)
(* The store with two requests racing to translate a page.                 *)
(***************************************************************************)
NextRace ==
    \/ \E code \in LangCodes, is_default \in BOOLEAN, live \in BOOLEAN :
          RegisterLanguage(code, is_default, live)
    \/ \E parent \in PageIds, language \in LangCodes, live \in {TRUE},
          slug \in Slugs, title \in Titles, specific \in BOOLEAN :
          CreatePage(parent, language, live, slug, title, specific)
    \/ \E r \in Requests, page \in PageIds, language \in LangCodes,
          copy_fields \in BOOLEAN :
          RaceCheck(r, page, language, copy_fields)
    \/ \E r \in Requests : RaceCreate(r)

SpecRace == Init /\ [][NextRace]_vars

(***************************************************************************)
(* Properties.                                                             *)
(***************************************************************************)
Translatable == {p \in DOMAIN pages : pages[p].translatable}

\* The translation group of p is named by its canonical page.
GroupOf(p) == IF pages[p].canonical_page # NoPage THEN pages[p].canonical_page ELSE p

Satellites(p) == {q \in Translatable : pages[q].canonical_page = p}

\* C1: in every reachable state no translation group holds two pages of
\* the same language.
C1_OnePagePerGroupLanguage ==
    \A p \in Translatable, q \in Translatable :
        (p # q /\ GroupOf(p) = GroupOf(q)) => pages[p].language # pages[q].language

\* C2: when the same call of create_translation on a page into a language
\* is made twice in a row, and the first did not find a translation there,
\* the first call has created a page and the second one fails with
\* "Translation already exists" and creates no page.
C2_SecondCallIsDuplicate ==
    [][(/\ last'.op = "create_translation"
        /\ last'.again
        /\ last.err # "DuplicateTranslation")
       => /\ nextId > last.base
          /\ last'.err = "DuplicateTranslation"
          /\ pages' = pages
          /\ nextId' = nextId]_vars

\* C3: for every page P with canonical page C, get_translations gives the
\* same pages on P, on C and on every page whose canonical page is C: C
\* and the pages whose canonical page is C, those of a live language (and,
\* with only_live, live themselves), in the order of their languages.
C3_GroupSymmetry ==
    \A p \in Translatable, only_live \in BOOLEAN :
        pages[p].canonical_page # NoPage =>
            LET C == pages[p].canonical_page
                G == {C} \cup Satellites(C)
                got == get_translations(languages, pages, p, only_live)
            IN /\ \A q \in G :
                     SeqSet(get_translations(languages, pages, q, only_live)) = SeqSet(got)
               /\ SeqSet(got) = {q \in G : /\ languages[pages[q].language].live
                                           /\ only_live => pages[q].live}
               /\ \A i \in 1..Len(got), j \in 1..Len(got) :
                     i < j => languages[pages[got[i]].language].order
                                 <= languages[pages[got[j]].language].order

\* C4: in every state a save has left, the stored language of a
\* translatable page whose parent is translatable is its parent's.
C4_StoredLanguageIsParents ==
    \A p \in Translatable :
        LET Q == get_parent(kids, p)
        IN (Q # NoPage /\ pages[Q].translatable) => pages[p].language = pages[Q].language

\* C5: after a page of the default language is created with sync enabled,
\* the pages whose canonical page it is are as many as the live
\* non-default languages, one for each of them, each unpublished and
\* slugged <slug>-<code>.
C5_OneSatellitePerLiveLanguage ==
    (/\ last.op = "create_page"
     /\ sync
     /\ last.lang = get_default_language(languages))
    => LET N == {c \in DOMAIN languages : languages[c].live /\ ~languages[c].is_default}
       IN /\ Cardinality(Satellites(last.page)) = Cardinality(N)
          /\ \A c \in N : \E q \in Satellites(last.page) : pages[q].language = c
          /\ \A q \in Satellites(last.page) :
                /\ ~pages[q].live
                /\ pages[q].slug = NewSlug(pages[last.page].slug,
                                           languages[pages[q].language].code)

\* C6: after a page that was the canonical page of others is deleted, with
\* sync enabled none of them is left, and with sync disabled each of them
\* is left, its canonical_page null.
C6_DeletionOfCanonical ==
    (last.op = "delete_page" /\ last.sats # {})
    => IF sync
       THEN last.sats \cap DOMAIN pages = {}
       ELSE \A q \in last.sats : q \in DOMAIN pages /\ pages[q].canonical_page = NoPage

C6_Deleted ==
    /\ last.op = "delete_page"
    /\ last.sats # {}
    /\ sync
    /\ last.page \notin DOMAIN pages

\* C7: after a language is registered with sync enabled while a root of
\* the default language with K pages below it exists, the pages of the
\* new language are K + 1, one with each page of that tree as its
\* canonical page, and the parent of the translation of every page below
\* the root is the translation of that page's parent.
C7_MirroredTree ==
    (last.op = "register_language" /\ sync /\ last.page # NoPage)
    => LET new == {q \in Translatable : pages[q].language = last.lang}
       IN /\ Cardinality(new) = Cardinality(last.tree) + 1
          /\ \A s \in last.tree \cup {last.page} :
                Cardinality({t \in new : pages[t].canonical_page = s}) = 1
          /\ \A s \in last.tree : \A t \in new :
                pages[t].canonical_page = s
                => /\ get_parent(kids, t) \in new
                   /\ pages[get_parent(kids, t)].canonical_page = get_parent(kids, s)

C7_Mirrored ==
    /\ last.op = "register_language"
    /\ last.tree # {}
    /\ last.err = ""
    /\ \E t \in Translatable : /\ pages[t].language = last.lang
                               /\ pages[t].canonical_page \in last.tree
                               /\ get_parent(kids, t) # get_parent(kids, pages[t].canonical_page)

\* The live translatable children of the index page in a language.
LiveChildren(self, code) ==
    {q \in SeqSet(kids[self]) : /\ pages[q].translatable
                                /\ pages[q].live
                                /\ pages[q].language = code}

\* C8: when the request's language is registered and the index page has
\* exactly one live child in it, serve redirects to that child; when the
\* request's code is no registered language, or the request has none, and
\* the index page has exactly one live child in the default language,
\* serve redirects to that child.
C8_Resolution ==
    last.op = "serve"
    => /\ (last.lang \in DOMAIN languages /\ Cardinality(LiveChildren(last.page, last.lang)) = 1)
          => /\ last.response.status = "redirect"
             /\ last.response.page \in LiveChildren(last.page, last.lang)
       /\ \A d \in DOMAIN languages :
             (/\ last.lang \notin DOMAIN languages
              /\ {c \in DOMAIN languages : languages[c].is_default} = {d}
              /\ Cardinality(LiveChildren(last.page, d)) = 1)
             => /\ last.response.status = "redirect"
                /\ last.response.page \in LiveChildren(last.page, d)

C8_Redirected ==
    /\ last.op = "serve"
    /\ last.lang = "fr"
    /\ "fr" \in DOMAIN languages
    /\ Cardinality({c \in DOMAIN languages : languages[c].is_default}) = 1
    /\ Cardinality(SeqSet(kids[last.page])) > 1
    /\ last.response.status = "redirect"
    /\ pages[last.response.page].language = "fr"

\* C9: the page a successful create_translation returns is unpublished,
\* slugged <source slug>-<language code>, of the target language, and has
\* the invoking page as its canonical page.
C9_ReturnedPage ==
    (last.op = "create_translation" /\ last.err = "")
    => /\ last.ret.pk \in DOMAIN pages
       /\ ~pages[last.ret.pk].live
       /\ pages[last.ret.pk].slug = NewSlug(pages[last.page].slug, languages[last.lang].code)
       /\ last.ret.language = last.lang
       /\ pages[last.ret.pk].canonical_page = last.page

\* C10: in every reachable state no page that has a canonical page is the
\* canonical page of another page.
C10_OneLevelStar ==
    \A p \in Translatable : pages[p].canonical_page # NoPage => Satellites(p) = {}

\* C11: after a page of a translation group is deleted with sync enabled,
\* no page of that group is left, whether the deleted page was the
\* canonical page or a satellite.
C11_WholeGroupDeleted ==
    (last.op = "delete_page" /\ sync /\ last.group # {})
    => last.group \cap DOMAIN pages = {}

\* C12: a candidate language that several live children of the index page
\* match is passed over like one that none matches: serve redirects to
\* the single live child of the first candidate language that has exactly
\* one, signals not found when there is no such candidate, and ends in no
\* other way.
C12_AmbiguousIsNotFound ==
    last.op = "serve"
    => LET cands == get_user_languages(languages, last.lang)
           exact == {i \in 1..Len(cands) :
                        Cardinality(LiveChildren(last.page, cands[i])) = 1}
       IN IF exact = {}
          THEN last.response.status = "Http404"
          ELSE /\ last.response.status = "redirect"
               /\ \E i \in exact : /\ \A j \in exact : i <= j
                                   /\ last.response.page \in LiveChildren(last.page, cands[i])

\* C13: two requests calling create_translation on the same page into the
\* same language can both pass the query for an existing translation
\* before either creates its page; when they have, both creations
\* succeed and the page has two translations into that language.
C13_BothCallsSucceed ==
    (/\ \A r \in Requests : calls[r].stage = "done" /\ calls[r].passed
     /\ calls["a"].page = calls["b"].page
     /\ calls["a"].lang = calls["b"].lang)
    => /\ \A r \in Requests :
             /\ calls[r].err = ""
             /\ calls[r].ret.pk \in DOMAIN pages
             /\ pages[calls[r].ret.pk].canonical_page = calls[r].page
             /\ pages[calls[r].ret.pk].language = calls[r].lang
       /\ calls["a"].ret.pk # calls["b"].ret.pk

C13_Raced ==
    /\ \A r \in Requests : calls[r].stage = "done" /\ calls[r].passed /\ calls[r].err = ""
    /\ calls["a"].page = calls["b"].page
    /\ calls["a"].lang = calls["b"].lang
    /\ Cardinality({q \in Satellites(calls["a"].page) :
                       pages[q].language = calls["a"].lang}) >= 2

\* The page and the pages below it, which the page-tree service deletes
\* with it.
Subtree(page) == {page} \cup SeqSet(get_descendants(kids, page))

\* C14: with the sync flag disabled, creating a page stores that page and
\* nothing else, registering a language changes no page, and deleting a
\* page removes it and the pages below it and sets to null the
\* canonical_page links to them: no other page is created, deleted,
\* moved or changed.
C14_SyncDisabledFrame ==
    [][~sync =>
         /\ last'.op = "create_page"
            => /\ DOMAIN pages' = DOMAIN pages \cup {nextId}
               /\ \A q \in DOMAIN pages : pages'[q] = pages[q]
               /\ \A q \in DOMAIN kids :
                     kids'[q] = kids[q] \/ kids'[q] = Append(kids[q], nextId)
         /\ last'.op = "register_language"
            => pages' = pages /\ kids' = kids
         /\ last'.op = "delete_page"
            => /\ DOMAIN pages' = DOMAIN pages \ Subtree(last'.page)
               /\ \A q \in DOMAIN pages' :
                     pages'[q] = IF pages[q].canonical_page \in Subtree(last'.page)
                                 THEN [pages[q] EXCEPT !.canonical_page = NoPage]
                                 ELSE pages[q]
               /\ \A q \in DOMAIN kids' :
                     kids'[q] = SelectSeq(kids[q], LAMBDA c : c \notin Subtree(last'.page))
      ]_vars

C14_NotMirrored ==
    /\ ~sync
    /\ last.op = "create_page"
    /\ languages[last.lang].is_default
    /\ \E c \in DOMAIN languages : ~languages[c].is_default
    /\ Satellites(last.page) = {}

TranslationsInto(Q, language) ==
    IF Q # NoPage /\ pages[Q].translatable
    THEN {q \in SeqSet(get_translations(languages, pages, Q, FALSE)) :
             pages[q].language = language}
    ELSE {}

\* C16: a call of create_translation that finds no translation already
\* there does not fail, in either copy_fields mode, and the parent of the
\* page it returns is the translation of the invoking page's parent into
\* the target language when that parent is translatable and has one, and
\* the invoking page's parent otherwise.
C16_Placement ==
    [][(last'.op = "create_translation" /\ last'.err # "DuplicateTranslation")
       => /\ last'.err = ""
          /\ last'.ret.pk \in DOMAIN pages'
          /\ LET Q == get_parent(kids, last'.page)
                 T == TranslationsInto(Q, last'.lang)
             IN IF T # {}
                THEN get_parent(kids', last'.ret.pk) \in T
                ELSE get_parent(kids', last'.ret.pk) = Q
      ]_vars

\* C17: when the request's language is registered it is the only
\* candidate: if the index page has no live child in it, serve signals not
\* found, whatever live children in a default language there are; and
\* when no candidate language has a live child, serve signals not found
\* and redirects nowhere.
C17_NotFoundIsTerminal ==
    last.op = "serve"
    => LET cands == IF last.lang \in DOMAIN languages
                    THEN {last.lang}
                    ELSE {c \in DOMAIN languages : languages[c].is_default}
       IN /\ (last.lang \in DOMAIN languages /\ LiveChildren(last.page, last.lang) = {})
             => last.response = [status |-> "Http404", page |-> NoPage]
          /\ (\A c \in cands : LiveChildren(last.page, c) = {})
             => last.response = [status |-> "Http404", page |-> NoPage]

C17_NoFallback ==
    /\ last.op = "serve"
    /\ last.lang \in DOMAIN languages
    /\ ~languages[last.lang].is_default
    /\ LiveChildren(last.page, last.lang) = {}
    /\ \E d \in DOMAIN languages : /\ languages[d].is_default
                                    /\ Cardinality(LiveChildren(last.page, d)) = 1
    /\ last.response.status = "Http404"

\* The pages of the default language of registry L: the first, by order,
\* of its live languages flagged is_default.
DefaultLanguagePages(L) ==
    {q \in Translatable :
        /\ pages[q].language \in DOMAIN L
        /\ L[pages[q].language].live
        /\ L[pages[q].language].is_default
        /\ \A d \in DOMAIN L :
              (L[d].live /\ L[d].is_default) => L[pages[q].language].order <= L[d].order}

\* C18: registering a language with sync enabled while no page of the
\* default language exists (no live default language being registered
\* included) raises nothing and creates, moves and deletes no page.
C18_NoRootNoOp ==
    [][(/\ last'.op = "register_language"
        /\ sync
        /\ \/ DefaultLanguagePages(languages) = {}
           \/ DefaultLanguagePages(languages') = {})
       => /\ last'.err = ""
          /\ pages' = pages
          /\ kids' = kids
          /\ nextId' = nextId]_vars

C18_NothingToMirror ==
    /\ sync
    /\ last.op = "register_language"
    /\ last.page = NoPage
    /\ last.err = ""
    /\ nextId = last.base
    /\ \E q \in Translatable : languages[pages[q].language].is_default
    /\ \A c \in DOMAIN languages : ~(languages[c].is_default /\ languages[c].live)

\* The pages an operation has created: their keys start at last.base.
CreatedBy == {q \in DOMAIN pages : q >= last.base}

\* C19: the pages the synchronizer creates set off no further creation,
\* however many languages are flagged is_default: after a page is created
\* with sync enabled, every other new page is a translation of that page
\* and there is at most one for each registered language; after a
\* language is registered, every new page is a translation of a page that
\* existed before and the new pages are at most as many as the pages of
\* the root's tree and of the languages flagged is_default that existed.
C19_NoRetrigger ==
    /\ (sync /\ last.op = "create_page")
       => /\ \A q \in CreatedBy \ {last.page} : pages[q].canonical_page = last.page
          /\ Cardinality(CreatedBy \ {last.page}) <= Cardinality(DOMAIN languages)
    /\ (sync /\ last.op = "register_language")
       => /\ \A q \in CreatedBy : pages[q].canonical_page \in DOMAIN pages \ CreatedBy
          /\ Cardinality(CreatedBy)
                <= Cardinality(last.tree \cup ({last.page} \ {NoPage}) \cup
                       {q \in Translatable \ CreatedBy :
                           languages[pages[q].language].is_default})

\* C20: in every reachable state, with sync enabled or disabled, the
\* canonical_page of every page is null or a page that exists.
C20_CanonicalExists ==
    \A p \in DOMAIN pages :
        pages[p].canonical_page = NoPage \/ pages[p].canonical_page \in DOMAIN pages

C20_LinkNullified ==
    /\ ~sync
    /\ last.op = "delete_page"
    /\ last.sats # {}
    /\ last.page \notin DOMAIN pages
    /\ \A q \in last.sats : q \in DOMAIN pages /\ pages[q].canonical_page = NoPage

====
